---- MODULE Spec2Model ----
(***************************************************************************)
(* A model of monitor_oxaut.py: the Telegram command handlers, the         *)
(* repeating job monitor_job and the drop detector check_drops.            *)
(*                                                                         *)
(* Units.  A price is an integer number of thousandths of a USD (the code  *)
(* holds a float); a threshold is an integer number of thousandths (the    *)
(* code holds the fraction 0.25 as a float, here 250).  The float          *)
(* comparison  (current - past) / past <= -threshold  is evaluated in      *)
(* exact arithmetic, cross-multiplied by past > 0.                        *)
(*                                                                         *)
(* A sample of the history is modelled by its price: the code stores       *)
(* (now, price) and no decision of the code reads the timestamp.           *)
(*                                                                         *)
(* The name `history`.  Line 45 binds the module-level name to a deque and *)
(* line 181 (async def history) rebinds it to the /history handler, so     *)
(* every `global history` of the handlers and of monitor_job finds the     *)
(* handler function.  The variable history holds that binding; each        *)
(* operation is translated for both kinds of object (a deque has clear,    *)
(* append and iteration; the function has none of them and the call        *)
(* raises), and ModuleHistory says which one the program starts with.      *)
(*                                                                         *)
(* Specifications.                                                         *)
(*   Spec      the command handlers main() registers.                      *)
(*   SpecJob   the same /logon and /logoff with monitor_job called as the  *)
(*             JobQueue calls an armed job, while the quote moves.  (Spec  *)
(*             has no such step: NoJobArmed holds of it.)                  *)
(*   SpecLong  SpecJob with a steady quote and longer runs.                *)
(*   SpecDrops check_drops applied to deques built by append.              *)
(*   SpecFirst check_drops applied to the first samples of a session.      *)
(*                                                                         *)
(* A handler runs as one step: python-telegram-bot handles one update at a *)
(* time, get_price_usd blocks the event loop (requests.get), and with      *)
(* `history` bound to the handler no handler changes state after an await. *)
(***************************************************************************)
EXTENDS Integers, Sequences, FiniteSets, TLC

\* ---------------------------------------------------------------- CONFIG
STEPS_10S  == 1
STEPS_30S  == 3
STEPS_1MIN == 6
STEPS_5MIN == 30
HISTORY_MAXLEN == STEPS_5MIN + 2

\* BotConfig.__init__: drop_threshold = 0.25, the four windows all active.
DefaultThreshold == 250
DefaultWindows == {"10s", "30s", "1min", "5min"}

\* update_counter % 30 == 0 in monitor_job
HEARTBEAT_EVERY == 30

\* minutes = 5 and entries = minutes * 6 in the history handler
DefaultMinutes == 5
EntriesPerMinute == 6

\* ---------------------------------------------------------------- bounds
\* how many times the quoted market price changes in a behaviour
MaxMoves == 1
\* how many lines the job writes to the price log in a behaviour
MaxLog == 6
\* ... in a behaviour with a steady quote
LongLog == 31
\* how many times the price changes along a history given to check_drops
MaxChanges == 1
\* how many samples the histories of the first ticks of a session hold
MaxFirst == 5

\* prices the endpoint can quote (thousandths of a USD)
MarketPrices == {70000, 75010, 100000}

\* what check_drops is tried with: past prices, current prices, configs
HistoryPrices == {0, 100000}
CurrentPrices == {75000, 75010, 100000}
Thresholds == {249, 250}
Configs == [drop_threshold : Thresholds, active_windows : SUBSET DefaultWindows]

\* the arguments /setthreshold is tried with: none, a word that float()
\* rejects, and percentages in tenths of a percent (12.5% is 125)
Word == [numeric |-> FALSE, value |-> 0]
Num(n) == [numeric |-> TRUE, value |-> n]
ThresholdArgs == {<<>>, <<Word>>, <<Num(-50)>>, <<Num(0)>>, <<Num(125)>>, <<Num(200)>>,
                  <<Num(1000)>>, <<Num(1500)>>}

\* the arguments /history is tried with: none, a word int() rejects, minutes
HistoryArgs == {<<>>, <<Word>>, <<Num(-1)>>, <<Num(0)>>, <<Num(1)>>, <<Num(5)>>}

\* ---------------------------------------------------------------- values
\* None, or a price p as <<p>>
None == <<>>
NoReply == <<>>
NoError == "none"

\* What the module-level name `history` is bound to once the module body has
\* run: line 45 binds it to a deque, line 181 (async def history) rebinds it
\* to the command handler.  A binding is a record: is_deque says which object
\* the name holds, items the deque's samples, oldest first.
HandlerFn == [is_deque |-> FALSE, items |-> <<>>]
Deque(items) == [is_deque |-> TRUE, items |-> items]
\* (mutant: the handler of line 181 under another name, `history` still the deque)
ModuleHistoryDeque == Deque(<<>>)
ModuleHistory == HandlerFn

IsDeque(h) == h.is_deque

\* f"{price:.2f}": thousandths of a USD to hundredths.  (The model's prices
\* avoid a last digit of 5, where the float's binary value decides.)
Fmt2(p) == (p + 5) \div 10

\* f"{pct:.0f}" of a percentage held in tenths: round half to even.
Fmt0(a) ==
    LET q == a \div 10
        r == a % 10
    IN  IF r < 5 THEN q
        ELSE IF r > 5 THEN q + 1
        ELSE IF q % 2 = 0 THEN q ELSE q + 1

\* (mutant: deque(maxlen=STEPS_5MIN))
DequeAppend_short(h, x) ==
    IF Len(h) >= STEPS_5MIN THEN Append(Tail(h), x) ELSE Append(h, x)

\* deque(maxlen=HISTORY_MAXLEN).append: a full deque drops its oldest element
DequeAppend(h, x) ==
    IF Len(h) >= HISTORY_MAXLEN THEN Append(Tail(h), x) ELSE Append(h, x)

\* list(history)[-entries:]  (Python: -0 is 0, so entries = 0 takes the whole
\* list; a negative entries drops the first -entries elements)
SliceLast(s, n) ==
    LET from == IF n > 0 THEN (IF n >= Len(s) THEN 1 ELSE Len(s) - n + 1)
                ELSE (-n) + 1
    IN  IF from > Len(s) THEN <<>> ELSE SubSeq(s, from, Len(s))

\* ---------------------------------------------------------------- check_drops
\* compare(step_back, label) of check_drops, with the list it appends to made
\* explicit.  history[-(step_back + 1)] is h[Len(h) - step_back] here; the
\* relative change is kept exact as <<current - past, past>>.
\* (mutant: `<` for `<=` at line 90)
compare_strict(alerts, h, current_price, cfg, step_back, label) ==
    IF label \in cfg.active_windows /\ Len(h) > step_back
    THEN LET past_price == h[Len(h) - step_back]
         IN  IF past_price > 0
                /\ (current_price - past_price) * 1000 < -(cfg.drop_threshold * past_price)
             THEN Append(alerts, <<label, past_price, <<current_price - past_price, past_price>>>>)
             ELSE alerts
    ELSE alerts

\* (mutant: history[-step_back] for history[-(step_back + 1)] at line 87)
compare_off_by_one(alerts, h, current_price, cfg, step_back, label) ==
    IF label \in cfg.active_windows /\ Len(h) > step_back
    THEN LET past_price == h[Len(h) - step_back + 1]
         IN  IF past_price > 0
                /\ (current_price - past_price) * 1000 <= -(cfg.drop_threshold * past_price)
             THEN Append(alerts, <<label, past_price, <<current_price - past_price, past_price>>>>)
             ELSE alerts
    ELSE alerts

\* (mutant: the `label in config.active_windows` test of line 86 left out)
compare_any_window(alerts, h, current_price, cfg, step_back, label) ==
    IF Len(h) > step_back
    THEN LET past_price == h[Len(h) - step_back]
         IN  IF past_price > 0
                /\ (current_price - past_price) * 1000 <= -(cfg.drop_threshold * past_price)
             THEN Append(alerts, <<label, past_price, <<current_price - past_price, past_price>>>>)
             ELSE alerts
    ELSE alerts

compare(alerts, h, current_price, cfg, step_back, label) ==
    IF label \in cfg.active_windows /\ Len(h) > step_back
    THEN LET past_price == h[Len(h) - step_back]
         IN  IF past_price > 0
                /\ (current_price - past_price) * 1000 <= -(cfg.drop_threshold * past_price)
             THEN Append(alerts, <<label, past_price, <<current_price - past_price, past_price>>>>)
             ELSE alerts
    ELSE alerts

check_drops(h, current_price, cfg) ==
    LET a1 == compare(<<>>, h, current_price, cfg, STEPS_10S,  "10s")
        a2 == compare(a1,   h, current_price, cfg, STEPS_30S,  "30s")
        a3 == compare(a2,   h, current_price, cfg, STEPS_1MIN, "1min")
        a4 == compare(a3,   h, current_price, cfg, STEPS_5MIN, "5min")
    IN  a4

\* ---------------------------------------------------------------- state
VARIABLES
    logged_on,       \* global logged_on
    history,         \* what the global name `history` is bound to
    last_price,      \* global last_price
    update_counter,  \* global update_counter
    drop_threshold,  \* config.drop_threshold
    jobs,            \* repeating monitor_job jobs in the JobQueue
    log_file,        \* lines of LOG_FILE (the price of each line, as written)
    sent,            \* messages monitor_job delivered through send_message
    reply,           \* what the last command replied with reply_text
    raised,          \* the exception that escaped the last handler, if any
    fetched,         \* whether the last handler called get_price_usd
    market,          \* the price the endpoint quotes now
    moves,           \* how many times the quote has changed
    session_from,    \* history variable: Len(log_file) when logged_on last became True
    d_history,       \* drop-detector harness: the history passed in
    d_price,         \* ... the current price passed in
    d_config,        \* ... the config passed in
    d_alerts,        \* ... what check_drops returned
    d_evicted        \* ... the sample the last append dropped, if any

session == <<logged_on, history, last_price, update_counter, jobs>>
files   == <<log_file, sent>>
world   == <<market, moves>>
harness == <<d_history, d_price, d_config, d_alerts, d_evicted>>
vars == <<logged_on, history, last_price, update_counter, drop_threshold, jobs,
          log_file, sent, reply, raised, fetched, market, moves, session_from,
          d_history, d_price, d_config, d_alerts, d_evicted>>

config == [drop_threshold |-> drop_threshold, active_windows |-> DefaultWindows]

\* d_alerts before check_drops has been applied (shaped like a list of alerts)
NotEvaluated == <<<<"not evaluated", 0, <<0, 0>>>>>>

\* The module body (lines 43-47, then line 181 rebinding `history`) has run,
\* no command has been handled yet.
InitProgram ==
    /\ logged_on = FALSE
    /\ history = ModuleHistory
    /\ last_price = None
    /\ update_counter = 0
    /\ drop_threshold = DefaultThreshold
    /\ jobs = 0
    /\ log_file = <<>>
    /\ sent = <<>>
    /\ reply = NoReply
    /\ raised = NoError
    /\ fetched = FALSE
    /\ session_from = 0

InitHarnessIdle ==
    /\ d_history = <<>>
    /\ d_price = 0
    /\ d_config = [drop_threshold |-> DefaultThreshold, active_windows |-> DefaultWindows]
    /\ d_alerts = NotEvaluated
    /\ d_evicted = <<>>

Init ==
    /\ InitProgram
    /\ market \in MarketPrices
    /\ moves = 0
    /\ InitHarnessIdle

\* ---------------------------------------------------------------- replies
\* await update.message.reply_text(msg): delivered, or the call raises
Replied(msg, delivered) ==
    /\ reply' = IF delivered THEN msg ELSE NoReply
    /\ raised' = IF delivered THEN NoError ELSE "TelegramError"

\* ---------------------------------------------------------------- the endpoint
\* The quote changes between two calls of get_price_usd.
MarketMove ==
    /\ moves < MaxMoves
    /\ \E p \in MarketPrices \ {market} : market' = p
    /\ moves' = moves + 1
    /\ UNCHANGED <<session, drop_threshold, files, reply, raised, fetched,
                   session_from, harness>>

\* ---------------------------------------------------------------- /logon
\* Lines 130-132: the session is already on.
logon_already(d1) ==
    /\ Replied(<<"Ya estas logueado.">>, d1)
    /\ fetched' = FALSE
    /\ UNCHANGED session

\* Lines 133-143.  ok: get_price_usd returns the quote (otherwise it raises);
\* d1, d2: the reply of the try block, the reply of the except block.
logon_start(ok, d1, d2) ==
    IF ~IsDeque(history)
    THEN \* line 133 has run; history.clear() on the handler function is an
         \* AttributeError, raised before the try block is entered
         /\ logged_on' = TRUE
         /\ reply' = NoReply
         /\ raised' = "AttributeError"
         /\ fetched' = FALSE
         /\ UNCHANGED <<history, last_price, update_counter, jobs>>
    ELSE /\ history' = Deque(<<>>)
         /\ fetched' = TRUE
         /\ last_price' = IF ok THEN <<market>> ELSE last_price
         /\ UNCHANGED update_counter
         /\ IF ok /\ d1
            THEN /\ logged_on' = TRUE
                 /\ jobs' = jobs + 1
                 /\ Replied(<<"Log activado. Precio actual:", Fmt2(market)>>, TRUE)
            ELSE \* except Exception: reply, then logged_on = False
                 /\ logged_on' = ~d2
                 /\ jobs' = jobs
                 /\ Replied(<<"Error activando log">>, d2)

\* (mutant: the `if logged_on: return` of lines 130-132 left out)
logon_unguarded(ok, d1, d2) ==
    /\ logon_start(ok, d1, d2)
    /\ session_from' = IF ~logged_on /\ logged_on' THEN Len(log_file) ELSE session_from
    /\ UNCHANGED <<drop_threshold, files, world, harness>>

logon(ok, d1, d2) ==
    /\ IF logged_on THEN logon_already(d1) ELSE logon_start(ok, d1, d2)
    /\ session_from' = IF ~logged_on /\ logged_on' THEN Len(log_file) ELSE session_from
    /\ UNCHANGED <<drop_threshold, files, world, harness>>

\* ---------------------------------------------------------------- /logoff
logoff(d1) ==
    /\ IF ~logged_on
       THEN /\ Replied(<<"No estas logueado.">>, d1)
            /\ UNCHANGED logged_on
       ELSE /\ logged_on' = FALSE
            /\ Replied(<<"Log desactivado.">>, d1)
    /\ fetched' = FALSE
    /\ UNCHANGED <<history, last_price, update_counter, jobs>>
    /\ UNCHANGED <<drop_threshold, files, world, session_from, harness>>

\* ---------------------------------------------------------------- /status
status(d1) ==
    /\ Replied(<<"Estado:", IF logged_on THEN "Logueado" ELSE "No logueado">>
               \o (IF last_price # None THEN <<"Ultimo precio:", Fmt2(last_price[1])>>
                   ELSE <<>>), d1)
    /\ fetched' = FALSE
    /\ UNCHANGED <<session, drop_threshold, files, world, session_from, harness>>

\* ---------------------------------------------------------------- /price
\* d1: the reply of the try block; d2: the reply of the except block, reached
\* when get_price_usd or the first reply raises
\* (mutant: the handler records the price it fetched in last_price)
price_records(ok, d1, d2) ==
    /\ IF ok /\ d1
       THEN Replied(<<"Precio actual de oXAUT:", Fmt2(market)>>, TRUE)
       ELSE Replied(<<"Error obteniendo precio">>, d2)
    /\ fetched' = TRUE
    /\ last_price' = IF ok THEN <<market>> ELSE last_price
    /\ UNCHANGED <<logged_on, history, update_counter, jobs>>
    /\ UNCHANGED <<drop_threshold, files, world, session_from, harness>>

price(ok, d1, d2) ==
    /\ IF ok /\ d1
       THEN Replied(<<"Precio actual de oXAUT:", Fmt2(market)>>, TRUE)
       ELSE Replied(<<"Error obteniendo precio">>, d2)
    /\ fetched' = TRUE
    /\ UNCHANGED <<session, drop_threshold, files, world, session_from, harness>>

\* ---------------------------------------------------------------- /setthreshold
\* (mutant: 0 <= new_threshold <= 1)
update_threshold_accepts_zero(new_threshold) ==
    0 <= new_threshold /\ new_threshold <= 1000

\* BotConfig.update_threshold(new_pct / 100): 0 < new_threshold <= 1
update_threshold_ok(new_threshold) == 0 < new_threshold /\ new_threshold <= 1000

setthreshold(args, d1) ==
    /\ IF args = <<>>
       THEN /\ Replied(<<"Umbral actual:", Fmt0(drop_threshold)>>, d1)
            /\ UNCHANGED drop_threshold
       ELSE IF ~args[1].numeric
       THEN \* float() raises ValueError
            /\ Replied(<<"Uso: /setthreshold <porcentaje>">>, d1)
            /\ UNCHANGED drop_threshold
       ELSE IF update_threshold_ok(args[1].value)
       THEN /\ drop_threshold' = args[1].value
            /\ Replied(<<"Umbral actualizado a", Fmt0(args[1].value)>>, d1)
       ELSE /\ Replied(<<"Porcentaje invalido.">>, d1)
            /\ UNCHANGED drop_threshold
    /\ fetched' = FALSE
    /\ UNCHANGED <<session, files, world, session_from, harness>>

\* ---------------------------------------------------------------- /history
\* The handler defined at line 181 under the name `history`.
history_handler(args, d1) ==
    /\ IF ~IsDeque(history)
       THEN \* `not history` is False for a function; list(history) is a TypeError
            /\ reply' = NoReply
            /\ raised' = "TypeError"
       ELSE IF history.items = <<>>
       THEN Replied(<<"No hay historial disponible.">>, d1)
       ELSE LET minutes == IF args # <<>> /\ args[1].numeric THEN args[1].value
                           ELSE DefaultMinutes
                recent == SliceLast(history.items, minutes * EntriesPerMinute)
            IN  IF recent = <<>>
                THEN Replied(<<"No hay datos suficientes para ese periodo.">>, d1)
                ELSE Replied(<<"Historial de precios", minutes>>
                             \o [i \in 1..Len(recent) |-> Fmt2(recent[i])], d1)
    /\ fetched' = FALSE
    /\ UNCHANGED <<session, drop_threshold, files, world, session_from, harness>>

\* ---------------------------------------------------------------- /help
help_command(d1) ==
    /\ Replied(<<"Comandos disponibles">>, d1)
    /\ fetched' = FALSE
    /\ UNCHANGED <<session, drop_threshold, files, world, session_from, harness>>

\* ---------------------------------------------------------------- monitor_job
\* One run of the job callback, which suspends at no point before its first
\* send_message (reached only when `history` is a deque).  ok: get_price_usd
\* returns the quote; d1, d2: the delivery of the alert and of the periodic
\* message (send_message raises otherwise).  Every exception is caught by the
\* except clause of line 124, which prints.  A message records the number of
\* the log line its run wrote (tick).
Alert(line, alerts, tick) ==
    [kind |-> "alert", price |-> line, windows |-> alerts, tick |-> tick]
Online(line, tick) ==
    [kind |-> "online", price |-> line, windows |-> <<>>, tick |-> tick]

\* Lines 100-101: the session is off, the job returns at once.
job_skipped ==
    /\ fetched' = FALSE
    /\ UNCHANGED <<session, files>>

\* (mutant: the except clause forgets the last price)
job_fetch_failed_forgets ==
    /\ fetched' = TRUE
    /\ last_price' = None
    /\ UNCHANGED <<logged_on, history, update_counter, jobs, files>>

\* Line 104 raises: the except clause of lines 124-125 prints, nothing else.
job_fetch_failed ==
    /\ fetched' = TRUE
    /\ UNCHANGED <<session, files>>

\* (mutant: log_price moved below history.append)
job_sampled_logs_late(d1, d2) ==
    LET line == Fmt2(market)
        tick == Len(log_file) + 1
    IN  /\ fetched' = TRUE
        /\ last_price' = <<market>>
        /\ UNCHANGED <<logged_on, jobs>>
        /\ IF ~IsDeque(history)
           THEN UNCHANGED <<history, update_counter, sent, log_file>>
           ELSE LET h == DequeAppend(history.items, market)
                    alerts == check_drops(h, market, config)
                    counter == update_counter + 1
                IN  /\ history' = Deque(h)
                    /\ log_file' = Append(log_file, line)
                    /\ IF alerts # <<>> /\ ~d1
                       THEN UNCHANGED <<update_counter, sent>>
                       ELSE /\ update_counter' = counter
                            /\ sent' = sent
                                 \o (IF alerts # <<>>
                                     THEN <<Alert(line, alerts, tick)>> ELSE <<>>)
                                 \o (IF counter % HEARTBEAT_EVERY = 0 /\ d2
                                     THEN <<Online(line, tick)>> ELSE <<>>)

\* Lines 105-123: get_price_usd returned the quote.
job_sampled(d1, d2) ==
    LET line == Fmt2(market)
        tick == Len(log_file) + 1
    IN  /\ fetched' = TRUE
        /\ last_price' = <<market>>
        /\ log_file' = Append(log_file, line)
        /\ UNCHANGED <<logged_on, jobs>>
        /\ IF ~IsDeque(history)
           THEN \* history.append on the handler function: AttributeError,
                \* caught; lines 109-123 do not run
                UNCHANGED <<history, update_counter, sent>>
           ELSE LET h == DequeAppend(history.items, market)
                    alerts == check_drops(h, market, config)
                    counter == update_counter + 1
                IN  /\ history' = Deque(h)
                    /\ IF alerts # <<>> /\ ~d1
                       THEN UNCHANGED <<update_counter, sent>>
                       ELSE /\ update_counter' = counter
                            /\ sent' = sent
                                 \o (IF alerts # <<>>
                                     THEN <<Alert(line, alerts, tick)>> ELSE <<>>)
                                 \o (IF counter % HEARTBEAT_EVERY = 0 /\ d2
                                     THEN <<Online(line, tick)>> ELSE <<>>)

\* (mutant: the `if not logged_on: return` of lines 100-101 left out)
monitor_job_unguarded(ok, d1, d2) ==
    /\ IF ~ok THEN job_fetch_failed ELSE job_sampled(d1, d2)
    /\ UNCHANGED <<drop_threshold, reply, raised, world, session_from, harness>>

monitor_job(ok, d1, d2) ==
    /\ IF ~logged_on THEN job_skipped
       ELSE IF ~ok THEN job_fetch_failed
       ELSE job_sampled(d1, d2)
    /\ UNCHANGED <<drop_threshold, reply, raised, world, session_from, harness>>

\* ---------------------------------------------------------------- harness
\* check_drops and the deque driven directly: a deque(maxlen=HISTORY_MAXLEN)
\* filled by append, and check_drops applied to it.
Changes(h) == Cardinality({i \in 1..(Len(h) - 1) : h[i] # h[i + 1]})

D_Append(p) ==
    /\ d_history' = DequeAppend(d_history, p)
    /\ d_price' = 0
    /\ d_config' = [drop_threshold |-> DefaultThreshold, active_windows |-> DefaultWindows]
    /\ d_alerts' = NotEvaluated
    /\ d_evicted' = SubSeq(d_history, 1, Len(d_history) + 1 - Len(d_history'))
    /\ UNCHANGED <<session, drop_threshold, files, reply, raised, fetched, world,
                   session_from>>

D_Evaluate(current_price, cfg) ==
    /\ d_alerts = NotEvaluated
    /\ d_price' = current_price
    /\ d_config' = cfg
    /\ d_alerts' = check_drops(d_history, current_price, cfg)
    /\ UNCHANGED <<d_history, d_evicted>>
    /\ UNCHANGED <<session, drop_threshold, files, reply, raised, fetched, world,
                   session_from>>

\* ---------------------------------------------------------------- specifications
\* The bot as main() runs it: the seven command handlers.  The JobQueue runs
\* monitor_job only for a job that run_repeating has added (see NoJobArmed).
Next ==
    \/ MarketMove
    \/ \E ok, d1, d2 \in BOOLEAN : logon(ok, d1, d2)
    \/ \E d1 \in BOOLEAN : logoff(d1)
    \/ \E d1 \in BOOLEAN : status(d1)
    \/ \E ok, d1, d2 \in BOOLEAN : price(ok, d1, d2)
    \/ \E args \in ThresholdArgs, d1 \in BOOLEAN : setthreshold(args, d1)
    \/ \E args \in HistoryArgs, d1 \in BOOLEAN : history_handler(args, d1)
    \/ \E d1 \in BOOLEAN : help_command(d1)

Spec == Init /\ [][Next]_vars

\* The job callback called as the JobQueue calls it, between /logon and
\* /logoff commands, while the quote moves.
NextJob ==
    \/ MarketMove
    \/ \E ok, d1, d2 \in BOOLEAN : logon(ok, d1, d2)
    \/ \E d1 \in BOOLEAN : logoff(d1)
    \/ \E ok, d1, d2 \in BOOLEAN : Len(log_file) < MaxLog /\ monitor_job(ok, d1, d2)

SpecJob == Init /\ [][NextJob]_vars

\* The same with a steady quote, for runs of more than HEARTBEAT_EVERY ticks.
NextLong ==
    \/ \E ok, d1, d2 \in BOOLEAN : logon(ok, d1, d2)
    \/ \E d1 \in BOOLEAN : logoff(d1)
    \/ \E ok, d1, d2 \in BOOLEAN : Len(log_file) < LongLog /\ monitor_job(ok, d1, d2)

SpecLong == Init /\ [][NextLong]_vars

\* check_drops on every history the harness builds.
NextDrops ==
    \/ \E p \in HistoryPrices :
           Changes(DequeAppend(d_history, p)) <= MaxChanges /\ D_Append(p)
    \/ \E current_price \in CurrentPrices, cfg \in Configs :
           D_Evaluate(current_price, cfg)

InitDrops ==
    /\ InitProgram
    /\ market = 100000
    /\ moves = 0
    /\ InitHarnessIdle

SpecDrops == InitDrops /\ [][NextDrops]_vars

\* check_drops on the first samples of a session, any prices of the feed.
NextFirst ==
    \/ \E p \in MarketPrices : Len(d_history) < MaxFirst /\ D_Append(p)
    \/ \E current_price \in MarketPrices, cfg \in Configs :
           D_Evaluate(current_price, cfg)

SpecFirst == InitDrops /\ [][NextFirst]_vars

\* ---------------------------------------------------------------- lemmas
\* With `history` bound to the handler, /logon never reaches run_repeating:
\* the JobQueue holds no job, which is why Next has no job step.
NoJobArmed == jobs = 0

Labels(alerts) == [i \in 1..Len(alerts) |-> alerts[i][1]]
Windows == <<"10s", "30s", "1min", "5min">>
StepsOf(w) ==
    CASE w = "10s"  -> STEPS_10S
      [] w = "30s"  -> STEPS_30S
      [] w = "1min" -> STEPS_1MIN
      [] w = "5min" -> STEPS_5MIN
Evaluated == d_alerts # NotEvaluated

C4_History == <<100000, 100000, 100000, 100000, 70000>>
C4_Case ==
    /\ Evaluated
    /\ d_history = C4_History
    /\ d_price = 70000
    /\ d_config = [drop_threshold |-> DefaultThreshold, active_windows |-> DefaultWindows]

\* C4 as claimed: on the samples 100,100,100,100,70 of ticks 0-4 the detector
\* reports the 10s window only.
C4_Only10s == C4_Case => Labels(d_alerts) = <<"10s">>

\* C4 amended: on those samples the detector reports the 10s and the 30s
\* windows, each from 100 to 70; 1min and 5min lack history.
C4_10sAnd30s ==
    C4_Case => d_alerts = << <<"10s", 100000, <<-30000, 100000>> >>,
                            <<"30s", 100000, <<-30000, 100000>> >> >>

C4_Witness == C4_Case /\ Len(d_alerts) = 2

\* ---------------------------------------------------------------- C5
\* the claim's condition for window w on the harness inputs
C5_Triggers(w) ==
    /\ w \in d_config.active_windows
    /\ Len(d_history) >= StepsOf(w) + 1
    /\ LET past == d_history[Len(d_history) - StepsOf(w)]
       IN  /\ past > 0
           /\ (d_price - past) * 1000 <= -(d_config.drop_threshold * past)

C5_Boundary(w) ==
    (/\ w \in d_config.active_windows
     /\ Len(d_history) > StepsOf(w)
     /\ d_history[Len(d_history) - StepsOf(w)] = 100000
     /\ d_config.drop_threshold = 250)
    => /\ d_price = 75000 => \E i \in 1..Len(d_alerts) : d_alerts[i][1] = w
       /\ d_price = 75010 => \A i \in 1..Len(d_alerts) : d_alerts[i][1] # w

\* C5: check_drops reports exactly the windows that are active, have a sample
\* that many steps behind the most recent one, whose past price is positive
\* and whose relative change is <= -threshold, in the order 10s, 30s, 1min,
\* 5min, each with its own past price and change; a drop of exactly the
\* threshold triggers and a smaller one does not.
C5_DropDetector ==
    Evaluated =>
        /\ Labels(d_alerts) = SelectSeq(Windows, C5_Triggers)
        /\ \A i \in 1..Len(d_alerts) :
              LET past == d_history[Len(d_history) - StepsOf(d_alerts[i][1])]
              IN  /\ d_alerts[i][2] = past
                  /\ d_alerts[i][3] = <<d_price - past, past>>
        /\ \A w \in DefaultWindows : C5_Boundary(w)

\* a drop of exactly 25% at threshold 0.25 reported for the first and the last
\* window while the two between are inactive
C5_Witness ==
    /\ Evaluated
    /\ d_price = 75000
    /\ d_config.drop_threshold = 250
    /\ Labels(d_alerts) = <<"10s", "5min">>

\* ---------------------------------------------------------------- C6
\* C6: a /logon issued while logged off with the endpoint failing (its error
\* reply delivered) leaves logged_on false, arms no job and leaves history and
\* last_price as they were.
C6_FailedStartLeavesStopped ==
    [][\A d1 \in BOOLEAN :
          (~logged_on /\ logon(FALSE, d1, TRUE))
          => (~logged_on' /\ jobs' = jobs /\ history' = history
              /\ last_price' = last_price)]_vars

\* ---------------------------------------------------------------- C7
\* C7: a /logon issued while logged off with the endpoint answering (and the
\* reply delivered) ends with logged_on true, an empty history, last_price the
\* fetched price and a repeating job armed.
C7_StartArmsTimer ==
    [][\A d2 \in BOOLEAN :
          (~logged_on /\ logon(TRUE, TRUE, d2))
          => (logged_on' /\ history' = Deque(<<>>) /\ last_price' = <<market>>
              /\ jobs' >= 1)]_vars

\* ---------------------------------------------------------------- C8
\* C8: a /logon issued while logged on leaves history, last_price,
\* update_counter, logged_on, the jobs, the threshold, the log and the sent
\* messages unchanged, calls no get_price_usd, and replies (when the reply is
\* delivered) that the session is already on.
C8_SecondStartIsNoOp ==
    [][\A ok, d1, d2 \in BOOLEAN :
          (logged_on /\ logon(ok, d1, d2))
          => (/\ UNCHANGED <<session, drop_threshold, files>>
              /\ ~fetched'
              /\ d1 => (reply' = <<"Ya estas logueado.">> /\ raised' = NoError))]_vars

C8_Witness == logged_on /\ reply = <<"Ya estas logueado.">>

\* ---------------------------------------------------------------- C9
\* C9: in every session the periodic message has been sent on the session's
\* 30th logged tick.
C9_FirstHeartbeatAt30 ==
    (logged_on /\ Len(log_file) - session_from >= HEARTBEAT_EVERY)
    => \E i \in 1..Len(sent) :
          sent[i].kind = "online" /\ sent[i].tick = session_from + HEARTBEAT_EVERY

\* ---------------------------------------------------------------- C10
\* C10: a run of monitor_job while logged on whose fetch succeeds leaves the
\* fetched price as the most recent sample of the history.
C10_SuccessfulTickAppends ==
    [][\A d1, d2 \in BOOLEAN :
          (logged_on /\ Len(log_file) < MaxLog /\ monitor_job(TRUE, d1, d2))
          => (IsDeque(history') /\ history'.items # <<>>
              /\ history'.items[Len(history'.items)] = market)]_vars

\* ---------------------------------------------------------------- C11
\* C11: a run of monitor_job while logged on whose fetch fails leaves the
\* history, last_price, update_counter, logged_on, the threshold and the armed
\* jobs unchanged, sends no message and writes no log line.
C11_FailedTickChangesNothing ==
    [][\A d1, d2 \in BOOLEAN :
          (logged_on /\ monitor_job(FALSE, d1, d2))
          => UNCHANGED <<session, drop_threshold, files>>]_vars

\* a session that has logged a price, then a run whose fetch failed (or none
\* since): the last price is still the logged one
C11_Witness ==
    /\ logged_on /\ fetched
    /\ log_file # <<>> /\ last_price # None
    /\ market # last_price[1]

\* ---------------------------------------------------------------- C12
\* C12: the deque built at line 45 never holds more than 32 = 30 + 2 samples;
\* an append below capacity keeps every sample, an append at capacity drops
\* exactly the oldest sample, and in both the order of the others is kept and
\* the new sample comes last.
C12_BoundedFifo ==
    [][\/ d_history' = d_history /\ d_evicted' = d_evicted
       \/ /\ Len(d_history') <= 32
          /\ \E p \in HistoryPrices :
                IF Len(d_history) < 32
                THEN d_history' = d_history \o <<p>> /\ d_evicted' = <<>>
                ELSE /\ d_history' = SubSeq(d_history, 2, 32) \o <<p>>
                     /\ d_evicted' = <<d_history[1]>>]_vars

\* an append at capacity has dropped the other price: the one change of the
\* history has moved out of it
C12_Witness ==
    /\ Len(d_history) = 32
    /\ d_evicted # <<>>
    /\ \A i \in 1..32 : d_history[i] # d_evicted[1]

\* ---------------------------------------------------------------- C13
\* C13: /setthreshold with a fraction outside (0, 1] raises nothing and leaves
\* drop_threshold as it was; with a fraction inside (0, 1] it replaces
\* drop_threshold, which is the value the config handed to check_drops then
\* holds; drop_threshold is inside (0, 1] before and after every step.
C13_ThresholdInRange ==
    [][/\ 0 < drop_threshold /\ drop_threshold <= 1000
       /\ 0 < drop_threshold' /\ drop_threshold' <= 1000
       /\ \A args \in ThresholdArgs, d1 \in BOOLEAN :
             (args # <<>> /\ args[1].numeric /\ setthreshold(args, d1))
             => IF 0 < args[1].value /\ args[1].value <= 1000
                THEN /\ drop_threshold' = args[1].value
                     /\ config'.drop_threshold = args[1].value
                ELSE /\ drop_threshold' = drop_threshold
                     /\ d1 => raised' = NoError]_vars

\* a fraction was accepted, then another one was rejected
C13_Witness ==
    /\ drop_threshold = 200
    /\ reply = <<"Porcentaje invalido.">>

\* ---------------------------------------------------------------- C14
\* the price of window w has fallen by the threshold or more
C14_MathTriggers(w) ==
    /\ Len(d_history) > StepsOf(w)
    /\ LET past == d_history[Len(d_history) - StepsOf(w)]
       IN  /\ past > 0
           /\ (d_price - past) * 1000 <= -(d_config.drop_threshold * past)

\* C14: every window check_drops reports is in the config's active_windows,
\* also when the prices of an inactive window have fallen by the threshold or
\* more.
C14_OnlyActiveWindows ==
    Evaluated =>
        \A i \in 1..Len(d_alerts) : d_alerts[i][1] \in d_config.active_windows

\* an evaluation in which an inactive window's prices have fallen by more than
\* the threshold, next to an active window that is reported
C14_Witness ==
    /\ Evaluated
    /\ d_alerts # <<>>
    /\ \E w \in DefaultWindows \ d_config.active_windows : C14_MathTriggers(w)

\* ---------------------------------------------------------------- C15
\* the minutes a /history command asks for (line 186, lines 187-191)
C15_Minutes(args) ==
    IF args # <<>> /\ args[1].numeric THEN args[1].value ELSE DefaultMinutes

\* the last n samples of items, oldest first; none for n <= 0
C15_MostRecent(items, n) ==
    IF n <= 0 THEN <<>>
    ELSE IF n >= Len(items) THEN items
    ELSE SubSeq(items, Len(items) - n + 1, Len(items))

C15_NoData ==
    {<<"No hay historial disponible.">>,
     <<"No hay datos suficientes para ese periodo.">>}

\* C15: whatever the history holds and whatever minutes are asked for, the
\* /history handler, its reply delivered, answers with the most recent samples
\* covering that many minutes, oldest first, and with a "no data" reply when
\* the history is empty or that slice is empty.
C15_HistoryQuery ==
    [][\A args \in HistoryArgs :
          history_handler(args, TRUE)
          => LET minutes == C15_Minutes(args)
                 recent == C15_MostRecent(history.items, minutes * EntriesPerMinute)
             IN  IF recent = <<>>
                 THEN reply' \in C15_NoData
                 ELSE reply' = <<"Historial de precios", minutes>>
                               \o [i \in 1..Len(recent) |-> Fmt2(recent[i])]]_vars

\* ---------------------------------------------------------------- C16
\* C16: the /price handler calls get_price_usd itself and, whether the call
\* returns a price or raises, leaves the history, logged_on, last_price,
\* update_counter and the armed jobs as they were (and the threshold, the log
\* file and the messages sent as well).
C16_PriceNowChangesNothing ==
    [][\A ok, d1, d2 \in BOOLEAN :
          price(ok, d1, d2)
          => /\ fetched'
             /\ UNCHANGED <<session, drop_threshold, files>>]_vars

\* /price has answered with the quote while the session was marked on
C16_Witness ==
    /\ fetched /\ logged_on
    /\ reply = <<"Precio actual de oXAUT:", Fmt2(market)>>
    /\ last_price = None

C19_CounterOnEveryTick ==
    [][\A d1, d2 \in BOOLEAN :
          (logged_on /\ monitor_job(TRUE, d1, d2))
          => /\ update_counter' = update_counter + 1
             /\ (update_counter' % HEARTBEAT_EVERY = 0 /\ d2)
                => /\ Len(sent') > Len(sent)
                   /\ sent'[Len(sent')] = Online(Fmt2(market), Len(log_file'))]_vars

\* ---------------------------------------------------------------- C20
\* C20: a run of monitor_job while logged on whose fetch returns a price adds
\* exactly one line, that price, to the log file, whatever becomes of the
\* messages it sends; no other step changes the log file, so it only grows;
\* and every message sent names a price that is already on the log line of
\* its tick.
C20_LogBeforeMessages ==
    [][/\ \A ok, d1, d2 \in BOOLEAN :
             (logged_on /\ monitor_job(ok, d1, d2))
             => log_file' = IF ok THEN Append(log_file, Fmt2(market)) ELSE log_file
       /\ log_file' # log_file
             => \E d1, d2 \in BOOLEAN : logged_on /\ monitor_job(TRUE, d1, d2)
       /\ \A i \in 1..Len(sent') :
             /\ sent'[i].tick <= Len(log_file')
             /\ log_file'[sent'[i].tick] = sent'[i].price]_vars

\* two ticks have logged two different quotes, a /logoff and a /logon between
\* or after them
C20_Witness ==
    /\ Len(log_file) >= 2
    /\ log_file[1] # log_file[2]
    /\ session_from > 0
    /\ last_price # None
    /\ log_file[Len(log_file)] = Fmt2(last_price[1])

====
